---- MODULE Spec2Model ----
(***************************************************************************)
(* State-machine model of src/camera_recorder.py (class CameraRecorder).   *)
(*                                                                         *)
(* Three threads of control share the recorder object:                     *)
(*   - the capture thread running capture_loop,                            *)
(*   - the Tk main loop (GUI thread), which runs one callback at a time:   *)
(*     on_save_button_clicked, on_buffer_slider_changed, update_status,    *)
(*     on_save_complete, on_save_error and the delayed status resets,      *)
(*   - one save thread per accepted trigger, running save_video.           *)
(* A frame is identified by the value frame_count had when it was read.    *)
(* Wall-clock gating (throttles, after() delays) is a nondeterministic     *)
(* choice; preview rendering and pixel scaling are not modelled.  A block  *)
(* guarded by self.lock is entered in one step (acquire and body) and left *)
(* in a second step (release), so every state in which the lock is held    *)
(* shows what was done under it.                                           *)
(***************************************************************************)
EXTENDS Integers, Sequences, FiniteSets, Bags, TLC

\* ---- bounds of the model ------------------------------------------------
\* frames the source delivers before the model stops reading
MaxFrames == 3
\* camera frame rates tried: 1..MaxFps
MaxFps == 1
\* retention values offered by the slider and the -d option
\* (stand-ins for the slider's from_=5 .. to=30)
MinDuration == 1
MaxDuration == 2
\* calls of on_save_button_clicked
MaxTriggers == 2
\* update_status callbacks waiting in the Tk queue
MaxPending == 1
\* bounds of the behaviours checked for liveness: frames delivered, and
\* triggers ignored and triggers not ignored (each)
LiveFrames == 2
LiveTriggers == 1

\* ---- program constants --------------------------------------------------
\* self.fps = 30, kept when the camera cannot be opened
DefaultFps == 30
\* self.frame_buffer = deque(maxlen=1) before init_camera sizes it
InitialMaxlen == 1

Durations ==
    MinDuration..MaxDuration

VARIABLES
    cap,             \* self.cap is a usable capture device
    fps,             \* self.fps
    buffer_duration, \* self.buffer_duration
    buffer_label,    \* seconds shown by self.buffer_label
    frame_buffer,    \* self.frame_buffer: [items, maxlen], a deque
    frame_count,     \* self.frame_count
    is_saving,       \* self.is_saving
    lock,            \* holder of self.lock: "free", "capture" or "gui"
    status,          \* self.status_label: [kind, n]
    save_button,     \* self.save_button state: "normal" or "disabled"
    cap_pc,          \* position of the capture thread
    read_failure,    \* history kept by SourceSpec: why cap.read() failed
    cap_seconds,     \* capture_loop's local buffer_seconds, in frames (0 outside its use)
    gui_pc,          \* position of the GUI thread
    current_frames,  \* update_buffer_size's local list of the old contents
    frames_to_save,  \* on_save_button_clicked's local snapshot
    buffer_seconds,  \* on_save_complete's local buffer_seconds, in frames
    after0,          \* callbacks posted with root.after(0, ...), in order
    timers,          \* bag of status resets posted with root.after(3000|5000, ...)
    exports,         \* one record per save thread started: [frames, snap_at, pc]
    files,           \* files written, in order: [job, frames, filename]
    triggers,        \* calls of on_save_button_clicked so far, counted by outcome
    resized          \* history: update_buffer_size has replaced the buffer

\* fixed by __init__
deviceVars ==
    << cap, fps >>

\* the shared buffer and its retention setting
bufferVars ==
    << frame_buffer, buffer_duration, buffer_label, resized >>

\* the capture thread's own state
captureVars ==
    << frame_count, cap_pc, cap_seconds, read_failure >>

\* what the GUI thread alone reads and writes
guiVars ==
    << gui_pc, is_saving, status, save_button, current_frames, frames_to_save,
       buffer_seconds, timers, triggers >>

\* save threads and their output
saveVars ==
    << exports, files >>

vars ==
    << deviceVars, bufferVars, captureVars, guiVars, saveVars, lock, after0 >>

\* ---- helpers ------------------------------------------------------------
Min(a, b) ==
    IF a <= b THEN a ELSE b

\* the capacity is computed from the default frame rate
BufferSizeOfDefaultFps(rate, duration) ==
    DefaultFps * duration

\* buffer_size = self.fps * self.buffer_duration
BufferSize(rate, duration) ==
    rate * duration

\* collections.deque(maxlen=n), empty
Deque(n) ==
    [items |-> << >>, maxlen |-> n]

\* a deque that never evicts
DequeAppendUnbounded(d, x) ==
    [d EXCEPT !.items = Append(d.items, x)]

\* a full deque overwrites its newest item
DequeAppendReplacesNewest(d, x) ==
    IF Len(d.items) >= d.maxlen
        THEN [d EXCEPT !.items = Append(SubSeq(d.items, 1, Len(d.items) - 1), x)]
        ELSE [d EXCEPT !.items = Append(d.items, x)]

\* a full deque keeps its oldest item and drops the new one
DequeAppendKeepsOldest(d, x) ==
    IF Len(d.items) >= d.maxlen
        THEN d
        ELSE [d EXCEPT !.items = Append(d.items, x)]

\* deque.append(x) on a deque with a maxlen: a full deque drops its leftmost
\* item; a deque of maxlen 0 stores nothing
DequeAppend(d, x) ==
    IF d.maxlen = 0
        THEN d
        ELSE IF Len(d.items) >= d.maxlen
            THEN [d EXCEPT !.items = Append(Tail(d.items), x)]
            ELSE [d EXCEPT !.items = Append(d.items, x)]

\* s[:k], the first k items
SliceFirst(s, k) ==
    SubSeq(s, 1, Min(k, Len(s)))

\* Python's s[-k:] for k >= 0: the last k items, but the whole list when
\* k = 0 (-0 is 0) or k >= len(s)
SliceLast(s, k) ==
    IF k = 0 \/ k >= Len(s)
        THEN s
        ELSE SubSeq(s, Len(s) - k + 1, Len(s))

RECURSIVE AppendAll(_, _)
\* for frame in s: d.append(frame)
AppendAll(d, s) ==
    IF s = << >>
        THEN d
        ELSE AppendAll(DequeAppend(d, Head(s)), Tail(s))

\* a replacement buffer that is not refilled
ResizedBufferNotRefilled(old_frames, new_buffer_size) ==
    Deque(new_buffer_size)

\* the part of update_buffer_size that builds the replacement buffer from
\* the copied list
ResizedBuffer(old_frames, new_buffer_size) ==
    LET frames_to_keep == Min(Len(old_frames), new_buffer_size)
    IN  AppendAll(Deque(new_buffer_size), SliceLast(old_frames, frames_to_keep))

\* a copy that misses the newest frame
ListOfAllButNewest(d) ==
    SubSeq(d.items, 1, Len(d.items) - 1)

\* list(self.frame_buffer)
ListOf(d) ==
    d.items

\* the status label: kind of text and the number it shows (in frames)
Status(kind, n) ==
    [kind |-> kind, n |-> n]

\* update_status: the text depends on is_saving when the callback runs
StatusText(saving, n) ==
    IF saving THEN Status("saving", n) ELSE Status("ready", n)

\* number of appends capture_loop has completed
Pushed ==
    IF cap_pc = "append" THEN frame_count - 1 ELSE frame_count

\* calls of on_save_button_clicked so far
Triggers ==
    triggers.ignored + triggers.rejected + triggers.started

\* save threads that have not yet handed their result to the GUI
InFlight ==
    {j \in 1..Len(exports) : exports[j].pc \in {"start", "write"}}

\* the capture thread appends without taking the lock
CaptureLockUnchecked ==
    TRUE

\* a running export keeps the lock from the capture thread
CaptureLockKeptByExport ==
    lock = "free" /\ InFlight = {}

\* with self.lock in capture_loop: the lock can be acquired when no thread
\* holds it
CaptureCanLock ==
    lock = "free"

\* ---- initial state: after CameraRecorder.__init__ -----------------------
Init ==
    /\ cap \in BOOLEAN
    /\ buffer_duration \in Durations
    /\ IF cap
          THEN /\ fps \in 1..MaxFps
               /\ frame_buffer = Deque(BufferSize(fps, buffer_duration))
          ELSE /\ fps = DefaultFps
               /\ frame_buffer = Deque(InitialMaxlen)
    /\ buffer_label = buffer_duration
    /\ resized = FALSE
    /\ frame_count = 0
    /\ cap_pc = "new"
    /\ read_failure = "none"
    /\ cap_seconds = 0
    /\ gui_pc = "new"
    /\ is_saving = FALSE
    /\ status = Status("ready", 0)
    /\ save_button = IF cap THEN "normal" ELSE "disabled"
    /\ current_frames = << >>
    /\ frames_to_save = << >>
    /\ buffer_seconds = 0
    /\ timers = EmptyBag
    /\ triggers = [ignored |-> 0, rejected |-> 0, started |-> 0]
    /\ exports = << >>
    /\ files = << >>
    /\ lock = "free"
    /\ after0 = << >>

\* ---- run() --------------------------------------------------------------
\* without a camera the error text is shown and run() returns before the
\* main loop; otherwise the capture thread and the main loop start
Run ==
    /\ gui_pc = "new"
    /\ IF ~cap
          THEN /\ status' = Status("unavailable", 0)
               /\ gui_pc' = "exited"
               /\ cap_pc' = cap_pc
          ELSE /\ status' = status
               /\ gui_pc' = "idle"
               /\ cap_pc' = "read"
    /\ UNCHANGED << deviceVars, bufferVars, frame_count, cap_seconds,
                    read_failure, is_saving, save_button, current_frames,
                    frames_to_save, buffer_seconds, timers, triggers,
                    saveVars, lock, after0 >>

\* ---- capture thread: capture_loop --------------------------------------
\* ret, frame = self.cap.read() succeeded; frame_count += 1
CaptureRead ==
    /\ cap_pc = "read"
    /\ frame_count < MaxFrames
    /\ frame_count' = frame_count + 1
    /\ cap_pc' = "append"
    /\ UNCHANGED << deviceVars, bufferVars, cap_seconds, read_failure, guiVars,
                    saveVars, lock, after0 >>

\* if not ret: print(...); break
CaptureReadFailed ==
    /\ cap_pc = "read"
    /\ cap_pc' = "stopped"
    /\ UNCHANGED << deviceVars, bufferVars, frame_count, cap_seconds,
                    read_failure, guiVars, saveVars, lock, after0 >>

\* what makes cap.read() return ret = False: one frame that cannot be
\* decoded, or the end or loss of the stream
ReadFailures ==
    {"bad_frame", "source_failed"}

\* the same step with its cause recorded: the code takes it whatever made
\* the read fail
CaptureReadFailedBecause ==
    /\ cap_pc = "read"
    /\ read_failure' \in ReadFailures
    /\ cap_pc' = "stopped"
    /\ UNCHANGED << deviceVars, bufferVars, frame_count, cap_seconds, guiVars,
                    saveVars, lock, after0 >>

\* with self.lock: append(frame.copy()); buffer_seconds = len(...) / fps
CaptureAppend ==
    /\ cap_pc = "append"
    /\ CaptureCanLock
    /\ lock' = "capture"
    /\ frame_buffer' = DequeAppend(frame_buffer, frame_count)
    /\ cap_seconds' = Len(frame_buffer'.items)
    /\ cap_pc' = "release"
    /\ UNCHANGED << deviceVars, buffer_duration, buffer_label, resized,
                    frame_count, read_failure, guiVars, saveVars, after0 >>

\* leaving the with block, then the throttled root.after(0, update_status, ...):
\* posted when the status interval has elapsed, skipped otherwise
CaptureRelease ==
    /\ cap_pc = "release"
    /\ lock = "capture"
    /\ lock' = "free"
    /\ cap_pc' = "read"
    /\ cap_seconds' = 0
    /\ \/ /\ Len(SelectSeq(after0, LAMBDA c : c.kind = "update_status")) < MaxPending
          /\ after0' = Append(after0, [kind |-> "update_status", n |-> cap_seconds])
       \/ after0' = after0
    /\ UNCHANGED << deviceVars, bufferVars, frame_count, read_failure, guiVars,
                    saveVars >>

\* ---- GUI thread: slider -------------------------------------------------
\* on_buffer_slider_changed with a value other than the current one calls
\* update_buffer_size (an equal value returns at once): the lock is taken and
\* the whole body runs under it, the label update included
UpdateBufferSize ==
    /\ gui_pc = "idle"
    /\ lock = "free"
    /\ current_frames' = ListOf(frame_buffer)
    /\ \E new_duration \in Durations :
          /\ new_duration # buffer_duration
          /\ frame_buffer' =
                ResizedBuffer(current_frames', BufferSize(fps, new_duration))
          /\ buffer_duration' = new_duration
          /\ buffer_label' = new_duration
    /\ resized' = TRUE
    /\ lock' = "gui"
    /\ gui_pc' = "resize_locked"
    /\ UNCHANGED << deviceVars, captureVars, is_saving, status, save_button,
                    frames_to_save, buffer_seconds, timers, triggers, saveVars,
                    after0 >>

\* leaving the with block
UpdateBufferSizeRelease ==
    /\ gui_pc = "resize_locked"
    /\ lock = "gui"
    /\ lock' = "free"
    /\ current_frames' = << >>
    /\ gui_pc' = "idle"
    /\ UNCHANGED << deviceVars, bufferVars, captureVars, is_saving, status,
                    save_button, frames_to_save, buffer_seconds, timers,
                    triggers, saveVars, after0 >>

\* ---- GUI thread: trigger (on_save_button_clicked) -----------------------
\* the check is skipped
AlreadySavingUnchecked ==
    FALSE

\* if self.is_saving: return
AlreadySaving ==
    is_saving

\* the check is skipped
BufferEmptyUnchecked ==
    FALSE

\* if len(self.frame_buffer) == 0
BufferEmpty ==
    Len(frame_buffer.items) = 0

\* a trigger while an export is running is answered with an error text
OnSaveButtonClickedIgnoredWithError ==
    /\ gui_pc = "idle"
    /\ Triggers < MaxTriggers
    /\ AlreadySaving
    /\ triggers' = [triggers EXCEPT !.ignored = @ + 1]
    /\ status' = Status("error", 0)
    /\ UNCHANGED << deviceVars, bufferVars, captureVars, gui_pc, is_saving,
                    save_button, current_frames, frames_to_save,
                    buffer_seconds, timers, saveVars, lock, after0 >>

\* a trigger while an export is running returns at once
OnSaveButtonClickedIgnored ==
    /\ gui_pc = "idle"
    /\ Triggers < MaxTriggers
    /\ AlreadySaving
    /\ triggers' = [triggers EXCEPT !.ignored = @ + 1]
    /\ UNCHANGED << deviceVars, bufferVars, captureVars, gui_pc, is_saving,
                    status, save_button, current_frames, frames_to_save,
                    buffer_seconds, timers, saveVars, lock, after0 >>

\* otherwise the lock is taken; with an empty buffer the warning text is
\* shown and a reset is posted for 3000 ms later, both under the lock
OnSaveButtonClickedEmpty ==
    /\ gui_pc = "idle"
    /\ Triggers < MaxTriggers
    /\ ~AlreadySaving
    /\ lock = "free"
    /\ BufferEmpty
    /\ lock' = "gui"
    /\ status' = Status("no_frames", 0)
    /\ timers' = timers (+) SetToBag({[kind |-> "reset", n |-> 0]})
    /\ gui_pc' = "save_rejected"
    /\ triggers' = [triggers EXCEPT !.rejected = @ + 1]
    /\ UNCHANGED << deviceVars, bufferVars, captureVars, is_saving,
                    save_button, current_frames, frames_to_save,
                    buffer_seconds, saveVars, after0 >>

\* the return inside the with block releases the lock
OnSaveButtonClickedRejected ==
    /\ gui_pc = "save_rejected"
    /\ lock = "gui"
    /\ lock' = "free"
    /\ gui_pc' = "idle"
    /\ UNCHANGED << deviceVars, bufferVars, captureVars, is_saving, status,
                    save_button, current_frames, frames_to_save,
                    buffer_seconds, timers, triggers, saveVars, after0 >>

\* the lock is taken; frames_to_save = list(self.frame_buffer)
OnSaveButtonClickedSnapshot ==
    /\ gui_pc = "idle"
    /\ Triggers < MaxTriggers
    /\ ~AlreadySaving
    /\ lock = "free"
    /\ ~BufferEmpty
    /\ lock' = "gui"
    /\ frames_to_save' = ListOf(frame_buffer)
    /\ gui_pc' = "save_snapshot"
    /\ triggers' = [triggers EXCEPT !.started = @ + 1]
    /\ UNCHANGED << deviceVars, bufferVars, captureVars, is_saving, status,
                    save_button, current_frames, buffer_seconds, timers,
                    saveVars, after0 >>

\* the lock is released; button disabled, is_saving set, saving text shown,
\* save thread started on frames_to_save
OnSaveButtonClickedStart ==
    /\ gui_pc = "save_snapshot"
    /\ lock = "gui"
    /\ lock' = "free"
    /\ save_button' = "disabled"
    /\ is_saving' = TRUE
    /\ status' = Status("saving", Len(frames_to_save))
    /\ exports' = Append(exports, [frames |-> frames_to_save,
                                   snap_at |-> Pushed,
                                   pc |-> "start"])
    /\ frames_to_save' = << >>
    /\ gui_pc' = "idle"
    /\ UNCHANGED << deviceVars, bufferVars, captureVars, current_frames,
                    buffer_seconds, timers, triggers, files, after0 >>

\* ---- save thread j: save_video -----------------------------------------
\* the test is inverted
NoFramesInverted(frames) ==
    Len(frames) # 0

\* if len(frames) == 0
NoFrames(frames) ==
    Len(frames) = 0

\* the writer is fed from the shared buffer
ProcessedFramesOfLiveBuffer(frames) ==
    frame_buffer.items

\* processed_frames: one frame per frame of the list the thread was given
ProcessedFrames(frames) ==
    frames

\* datetime.now().timestamp() as save thread j reads it, in frame periods
\* since the first read: the camera delivers fps frames a second (what
\* save_video itself assumes when it takes len(frames) / fps for the clip's
\* duration), so the wall clock is measured in frames; the thread reads the
\* clock as it starts, within the frame period of its snapshot
Now(j) ==
    exports[j].snap_at

\* the timestamp of the file name: the clip's start time, now minus
\* len(frames) / fps, formatted to whole seconds (strftime drops the fraction)
Timestamp(now, frames) ==
    (now - Len(frames)) \div fps

\* filename = os.path.join(output_dir, f"{timestamp}.mp4")
Filename(j) ==
    Timestamp(Now(j), exports[j].frames)

\* file name computed; with no frames the thread prints and returns
SaveVideoStart(j) ==
    /\ exports[j].pc = "start"
    /\ exports' = [exports EXCEPT ![j].pc =
                      IF NoFrames(exports[j].frames) THEN "returned" ELSE "write"]
    /\ UNCHANGED << deviceVars, bufferVars, captureVars, guiVars, files, lock,
                    after0 >>

\* frames written to the file, writer released,
\* root.after(0, self.on_save_complete, ...)
SaveVideoWrite(j) ==
    /\ exports[j].pc = "write"
    /\ files' = Append(files, [job |-> j,
                               frames |-> ProcessedFrames(exports[j].frames),
                               filename |-> Filename(j)])
    /\ after0' = Append(after0, [kind |-> "on_save_complete", n |-> j])
    /\ exports' = [exports EXCEPT ![j].pc = "posted"]
    /\ UNCHANGED << deviceVars, bufferVars, captureVars, guiVars, lock >>

\* except Exception: root.after(0, self.on_save_error, str(e))
SaveVideoError(j) ==
    /\ exports[j].pc \in {"start", "write"}
    /\ after0' = Append(after0, [kind |-> "on_save_error", n |-> j])
    /\ exports' = [exports EXCEPT ![j].pc = "failed"]
    /\ UNCHANGED << deviceVars, bufferVars, captureVars, guiVars, files, lock >>

\* ---- GUI thread: callbacks from the Tk queue ----------------------------
\* update_status(buffer_seconds)
UpdateStatus ==
    /\ gui_pc = "idle"
    /\ after0 # << >>
    /\ Head(after0).kind = "update_status"
    /\ status' = StatusText(is_saving, Head(after0).n)
    /\ after0' = Tail(after0)
    /\ UNCHANGED << deviceVars, bufferVars, captureVars, gui_pc, is_saving,
                    save_button, current_frames, frames_to_save,
                    buffer_seconds, timers, triggers, saveVars, lock >>

\* on_save_complete up to the with block
OnSaveComplete ==
    /\ gui_pc = "idle"
    /\ after0 # << >>
    /\ Head(after0).kind = "on_save_complete"
    /\ is_saving' = FALSE
    /\ save_button' = "normal"
    /\ after0' = Tail(after0)
    /\ gui_pc' = "complete_acquire"
    /\ UNCHANGED << deviceVars, bufferVars, captureVars, status,
                    current_frames, frames_to_save, buffer_seconds, timers,
                    triggers, saveVars, lock >>

\* with self.lock: buffer_seconds = len(self.frame_buffer) / self.fps
OnSaveCompleteLocked ==
    /\ gui_pc = "complete_acquire"
    /\ lock = "free"
    /\ lock' = "gui"
    /\ buffer_seconds' = Len(frame_buffer.items)
    /\ gui_pc' = "complete_locked"
    /\ UNCHANGED << deviceVars, bufferVars, captureVars, is_saving, status,
                    save_button, current_frames, frames_to_save, timers,
                    triggers, saveVars, after0 >>

\* lock released; success text; reset after 5000 ms to the value read above
OnSaveCompleteShow ==
    /\ gui_pc = "complete_locked"
    /\ lock = "gui"
    /\ lock' = "free"
    /\ status' = Status("saved", 0)
    /\ timers' = timers (+) SetToBag({[kind |-> "reset", n |-> buffer_seconds]})
    /\ buffer_seconds' = 0
    /\ gui_pc' = "idle"
    /\ UNCHANGED << deviceVars, bufferVars, captureVars, is_saving,
                    save_button, current_frames, frames_to_save, triggers,
                    saveVars, after0 >>

\* on_save_error: the reset after 5000 ms reads the buffer when it fires
OnSaveError ==
    /\ gui_pc = "idle"
    /\ after0 # << >>
    /\ Head(after0).kind = "on_save_error"
    /\ is_saving' = FALSE
    /\ save_button' = "normal"
    /\ status' = Status("error", 0)
    /\ timers' = timers (+) SetToBag({[kind |-> "reset_live", n |-> 0]})
    /\ after0' = Tail(after0)
    /\ UNCHANGED << deviceVars, bufferVars, captureVars, gui_pc,
                    current_frames, frames_to_save, buffer_seconds, triggers,
                    saveVars, lock >>

\* a delayed lambda runs: status_label.config(text="Camera ready. ...")
StatusReset ==
    /\ gui_pc = "idle"
    /\ \E t \in BagToSet(timers) :
          /\ timers' = timers (-) SetToBag({t})
          /\ status' = IF t.kind = "reset_live"
                          THEN Status("ready", Len(frame_buffer.items))
                          ELSE Status("ready", t.n)
    /\ UNCHANGED << deviceVars, bufferVars, captureVars, gui_pc, is_saving,
                    save_button, current_frames, frames_to_save,
                    buffer_seconds, triggers, saveVars, lock, after0 >>

\* ---- specifications -----------------------------------------------------
Next ==
    \/ Run
    \/ CaptureRead
    \/ CaptureReadFailed
    \/ CaptureAppend
    \/ CaptureRelease
    \/ UpdateBufferSize
    \/ UpdateBufferSizeRelease
    \/ OnSaveButtonClickedIgnored
    \/ OnSaveButtonClickedEmpty
    \/ OnSaveButtonClickedRejected
    \/ OnSaveButtonClickedSnapshot
    \/ OnSaveButtonClickedStart
    \/ \E j \in 1..Len(exports) : SaveVideoStart(j)
    \/ \E j \in 1..Len(exports) : SaveVideoWrite(j)
    \/ \E j \in 1..Len(exports) : SaveVideoError(j)
    \/ UpdateStatus
    \/ OnSaveComplete
    \/ OnSaveCompleteLocked
    \/ OnSaveCompleteShow
    \/ OnSaveError
    \/ StatusReset

Spec ==
    Init /\ [][Next]_vars

\* the same steps, with the cause of a failed read recorded
SourceNext ==
    \/ Run
    \/ CaptureRead
    \/ CaptureReadFailedBecause
    \/ CaptureAppend
    \/ CaptureRelease
    \/ UpdateBufferSize
    \/ UpdateBufferSizeRelease
    \/ OnSaveButtonClickedIgnored
    \/ OnSaveButtonClickedEmpty
    \/ OnSaveButtonClickedRejected
    \/ OnSaveButtonClickedSnapshot
    \/ OnSaveButtonClickedStart
    \/ \E j \in 1..Len(exports) : SaveVideoStart(j)
    \/ \E j \in 1..Len(exports) : SaveVideoWrite(j)
    \/ \E j \in 1..Len(exports) : SaveVideoError(j)
    \/ UpdateStatus
    \/ OnSaveComplete
    \/ OnSaveCompleteLocked
    \/ OnSaveCompleteShow
    \/ OnSaveError
    \/ StatusReset

SourceSpec ==
    Init /\ [][SourceNext]_vars

\* ---- fairness ------------------------------------------------------------
\* a step of some save thread
SaveThreadStep ==
    \E j \in 1..Len(exports) :
        SaveVideoStart(j) \/ SaveVideoWrite(j) \/ SaveVideoError(j)

\* the main loop runs the callback at the head of its queue
QueueHead ==
    UpdateStatus \/ OnSaveComplete \/ OnSaveError

\* the running GUI callback leaves its with block and runs on to its end
GuiContinue ==
    \/ UpdateBufferSizeRelease
    \/ OnSaveButtonClickedRejected
    \/ OnSaveButtonClickedStart
    \/ OnSaveCompleteShow

\* every thread that can run does run; the main loop serves its queue in
\* order however often the operator acts; a request for the lock is served
\* however often the capture thread takes it
Fairness ==
    /\ WF_vars(CaptureRelease)
    /\ WF_vars(SaveThreadStep)
    /\ WF_vars(GuiContinue)
    /\ SF_vars(QueueHead)
    /\ SF_vars(OnSaveCompleteLocked)

\* the steps of Next within the bounds of the liveness check
LiveTriggerBound ==
    /\ triggers'.ignored <= LiveTriggers
    /\ triggers'.rejected + triggers'.started <= LiveTriggers

LiveNext ==
    \/ Run
    \/ CaptureRead /\ frame_count' <= LiveFrames
    \/ CaptureReadFailed
    \/ CaptureAppend
    \/ CaptureRelease
    \/ UpdateBufferSize
    \/ UpdateBufferSizeRelease
    \/ OnSaveButtonClickedIgnored /\ LiveTriggerBound
    \/ OnSaveButtonClickedEmpty /\ LiveTriggerBound
    \/ OnSaveButtonClickedRejected
    \/ OnSaveButtonClickedSnapshot /\ LiveTriggerBound
    \/ OnSaveButtonClickedStart
    \/ SaveThreadStep
    \/ QueueHead
    \/ OnSaveCompleteLocked
    \/ OnSaveCompleteShow
    \/ StatusReset

LiveSpec ==
    Init /\ [][LiveNext]_vars /\ Fairness

\* scheduling in which a save thread may stall for ever: the capture thread
\* gets the lock if it is free again and again, and the other lock holders
\* (the capture thread itself, the running GUI callback) leave their blocks
StalledExportFairness ==
    /\ SF_vars(CaptureAppend)
    /\ WF_vars(CaptureRelease)
    /\ WF_vars(GuiContinue)

StalledExportSpec ==
    Init /\ [][LiveNext]_vars /\ StalledExportFairness

\* ---- vocabulary of the properties ---------------------------------------
\* the frames a..b in push order
FrameRun(a, b) ==
    [i \in 1..(b - a + 1) |-> a + i - 1]

\* the last k items of s (all of s when it is shorter)
LastOf(s, k) ==
    SubSeq(s, Len(s) - Min(k, Len(s)) + 1, Len(s))

\* s is a gap-free, duplicate-free run of the push sequence ending at push p
RunEndingAt(s, p) ==
    /\ Len(s) >= 1
    /\ s[Len(s)] = p
    /\ \A i \in 1..(Len(s) - 1) : s[i + 1] = s[i] + 1

\* ---- properties -----------------------------------------------------------
\* C1: in every reachable state the live frame_buffer holds at most maxlen
\* frames, whatever the interleaving of pushes, resizes and snapshots.
C1_BoundedLength ==
    Len(frame_buffer.items) <= frame_buffer.maxlen

\* C1 witness: the capture thread has just pushed onto a full buffer
C1_Witness ==
    /\ lock = "capture"
    /\ Pushed > frame_buffer.maxlen
    /\ Len(frame_buffer.items) = frame_buffer.maxlen

\* C2: with no resize since start, after n pushes onto the initially empty
\* buffer of capacity C the buffer holds exactly the last min(n, C) frames
\* pushed, in push order.
C2_OverwriteOrder ==
    ~resized =>
        frame_buffer.items = LastOf(FrameRun(1, Pushed), frame_buffer.maxlen)

\* C2 witness: no resize, capacity at least 2, more pushes than capacity
C2_Witness ==
    /\ ~resized
    /\ frame_buffer.maxlen >= 2
    /\ Pushed > frame_buffer.maxlen

\* C3: the snapshot a trigger takes, and the list every save thread was
\* given, is a contiguous run of the push sequence in push order that ends
\* with the last push completed at the snapshot instant.
C3_SnapshotIsolation ==
    /\ gui_pc = "save_snapshot" => RunEndingAt(frames_to_save, Pushed)
    /\ \A j \in 1..Len(exports) :
          RunEndingAt(exports[j].frames, exports[j].snap_at)

\* C3 witness: a snapshot of two or more frames taken after a resize while
\* the capture thread holds a frame it has read and not yet pushed
C3_Witness ==
    /\ gui_pc = "save_snapshot"
    /\ cap_pc = "append"
    /\ resized
    /\ Len(frames_to_save) >= 2

\* C4: at most one save thread is in flight, a trigger that arrives while
\* is_saving is true starts no thread and writes no file, and there are never
\* more files than accepted triggers.
C4_SingleExport ==
    /\ [](/\ Cardinality(InFlight) <= 1
          /\ (InFlight # {} => is_saving)
          /\ Len(exports) <= triggers.started
          /\ Len(files) <= Len(exports))
    /\ [][(is_saving /\ triggers' # triggers)
            => (exports' = exports /\ files' = files /\ is_saving')]_vars

\* C4 witness: a second trigger was ignored while the first export runs
C4_Witness ==
    /\ triggers.started = 1
    /\ triggers.ignored = 1
    /\ InFlight = {1}
    /\ files = << >>

\* C5: every file holds exactly the list its save thread was given at the
\* snapshot; that list never changes afterwards; and a push made while an
\* export is in flight appends the frame and keeps the newest maxlen frames,
\* as without an export.
C5_ExportUsesSnapshot ==
    /\ [](\A k \in 1..Len(files) :
            files[k].frames = exports[files[k].job].frames)
    /\ [][\A j \in 1..Len(exports) :
            /\ exports'[j].frames = exports[j].frames
            /\ exports'[j].snap_at = exports[j].snap_at]_vars
    /\ [][(InFlight # {} /\ cap_pc = "append" /\ cap_pc' = "release")
            => frame_buffer' =
                 [items |-> LastOf(Append(frame_buffer.items, frame_count),
                                   frame_buffer.maxlen),
                  maxlen |-> frame_buffer.maxlen]]_vars

\* C5 witness: a file is written and its export not yet reported complete,
\* while pushes since the snapshot have evicted a frame the file holds
C5_Witness ==
    /\ is_saving
    /\ \E k \in 1..Len(files) :
          /\ exports[files[k].job].pc = "posted"
          /\ Pushed > exports[files[k].job].snap_at
          /\ Len(frame_buffer.items) >= 1
          /\ files[k].frames[1] < frame_buffer.items[1]

C8_EmptyBufferRejected ==
    /\ [](gui_pc = "save_rejected"
            => /\ ~is_saving
               /\ InFlight = {}
               /\ frame_buffer.items = << >>)
    /\ [][(/\ ~is_saving
           /\ Len(frame_buffer.items) = 0
           /\ triggers' # triggers)
            => /\ triggers' = [triggers EXCEPT !.rejected = @ + 1]
               /\ status'.kind = "no_frames"
               /\ ~is_saving'
               /\ exports' = exports
               /\ files' = files
               /\ frame_buffer' = frame_buffer]_vars

\* C8 witness: the handler has rejected a trigger and is about to return
C8_Witness ==
    /\ gui_pc = "save_rejected"
    /\ status.kind = "no_frames"
    /\ triggers.rejected >= 1

\* C9: under fair scheduling, whenever is_saving is true it later becomes
\* false with the success or the error text shown.
C9_ExportReturnsToIdle ==
    is_saving ~> (~is_saving /\ status.kind \in {"saved", "error"})

\* C9 witness: an export has failed while capture went on, the error is
\* shown and the recorder is idle again
C9_Witness ==
    /\ ~is_saving
    /\ gui_pc = "idle"
    /\ status.kind = "error"
    /\ \E j \in 1..Len(exports) :
          /\ exports[j].pc = "failed"
          /\ Pushed > exports[j].snap_at

\* C10: once capture_loop has stopped on a failed read and the GUI has
\* nothing left to run, the status shows the source as unavailable (and not
\* normal capture).
C10_SourceFailureSignalled ==
    (/\ cap_pc = "stopped"
     /\ gui_pc = "idle"
     /\ after0 = << >>
     /\ timers = EmptyBag
     /\ InFlight = {})
        => status.kind = "unavailable"

\* C11: a trigger received while an export is running changes nothing: the
\* buffer, the retention and capacity, is_saving, the save threads and their
\* files, the status, the button, the lock and the pending callbacks are the
\* same after it as before it.
C11_RedundantTriggerIgnored ==
    [][(is_saving /\ triggers' # triggers)
        => /\ triggers' = [triggers EXCEPT !.ignored = @ + 1]
           /\ UNCHANGED << frame_buffer, buffer_duration, buffer_label,
                           is_saving, exports, files, status, save_button,
                           timers, after0, lock >>]_vars

\* C11 witness: a trigger was ignored while the export's file was already
\* written and its completion not yet handled
C11_Witness ==
    /\ is_saving
    /\ triggers.ignored >= 1
    /\ status.kind = "saving"
    /\ \E j \in 1..Len(exports) : exports[j].pc = "posted"

\* C12: any two files written by successful exports of one run have
\* different names, so no export overwrites the file of an earlier one.
C12_DistinctOutputFiles ==
    \A k1, k2 \in 1..Len(files) :
        k1 # k2 => files[k1].filename # files[k2].filename

\* C13: with the camera initialised, whenever the lock is free the buffer's
\* capacity is fps * buffer_duration; the retention value and the capacity
\* change only in update_buffer_size, both in the same locked block.
C13_CapacityFollowsRetention ==
    /\ []((cap /\ lock = "free")
            => frame_buffer.maxlen = fps * buffer_duration)
    /\ [][(\/ frame_buffer'.maxlen # frame_buffer.maxlen
           \/ buffer_duration' # buffer_duration)
            => /\ lock = "free"
               /\ lock' = "gui"
               /\ gui_pc' = "resize_locked"
               /\ frame_buffer'.maxlen # frame_buffer.maxlen
               /\ buffer_duration' # buffer_duration]_vars

\* C13 witness: after a resize the lock is free again and the buffer has
\* filled to its new capacity
C13_Witness ==
    /\ cap
    /\ resized
    /\ lock = "free"
    /\ gui_pc = "idle"
    /\ frame_buffer.maxlen = fps * buffer_duration
    /\ Len(frame_buffer.items) = frame_buffer.maxlen

\* C14: pushes and resizes are serialised by the lock: the two threads are
\* never inside their locked blocks together, the buffer is always the
\* gap-free, duplicate-free tail of the push sequence up to the last push, a
\* resize keeps the newest frames of the live buffer that fit the new
\* capacity and a push adds its frame to the live buffer, keeping the newest
\* maxlen frames.
C14_ResizeSerialisedWithPush ==
    /\ [](/\ ~(cap_pc = "release" /\ gui_pc = "resize_locked")
          /\ (cap_pc = "release") = (lock = "capture")
          /\ (gui_pc = "resize_locked" => lock = "gui")
          /\ (Pushed > 0 => Len(frame_buffer.items) >= 1)
          /\ frame_buffer.items =
                LastOf(FrameRun(1, Pushed), Len(frame_buffer.items)))
    /\ [][(gui_pc # "resize_locked" /\ gui_pc' = "resize_locked")
            => /\ cap_pc # "release"
               /\ frame_buffer'.items =
                    LastOf(frame_buffer.items, frame_buffer'.maxlen)
               /\ frame_count' = frame_count
               /\ cap_pc' = cap_pc]_vars
    /\ [][(cap_pc = "append" /\ cap_pc' = "release")
            => /\ gui_pc # "resize_locked"
               /\ frame_buffer'.items =
                    LastOf(Append(frame_buffer.items, frame_count),
                           frame_buffer.maxlen)
               /\ frame_buffer'.maxlen = frame_buffer.maxlen
               /\ buffer_duration' = buffer_duration]_vars

\* C14 witness: a resize that drops frames holds the lock while the capture
\* thread waits with a frame it has read and not yet pushed
C14_Witness ==
    /\ gui_pc = "resize_locked"
    /\ cap_pc = "append"
    /\ lock = "gui"
    /\ Len(current_frames) > frame_buffer.maxlen
    /\ Len(frame_buffer.items) >= 1

\* C15: a step a thread takes into or inside its locked block (the lock is
\* its own after the step) changes no label, no button and no scheduled
\* callback: only the buffer, the retention and the thread's locals.
C15_LockedBlocksTouchBufferOnly ==
    [][(\/ lock' = "gui" /\ gui_pc' # gui_pc
        \/ lock' = "capture" /\ cap_pc' # cap_pc)
        => UNCHANGED << status, buffer_label, save_button, timers,
                        after0 >>]_vars

\* C16: no step of a save thread takes or releases the lock, and a push the
\* capture thread attempts while an export is in flight gets the lock and
\* completes, even if the export never takes another step.
C16_ExportNeverBlocksIngestion ==
    /\ [][(\E j \in 1..Len(exports) : exports'[j].pc # exports[j].pc)
            => lock' = lock]_vars
    /\ [](lock \in {"free", "capture", "gui"})
    /\ (cap_pc = "append" /\ InFlight # {}) ~> (cap_pc = "release")

\* C16 witness: the capture thread has just pushed a frame after the
\* snapshot of an export that is still in flight
C16_Witness ==
    /\ cap_pc = "release"
    /\ lock = "capture"
    /\ \E j \in InFlight : Pushed > exports[j].snap_at

\* C17: a read that fails on one undecodable frame does not stop the
\* capture loop: the frame is dropped and the loop reads on.
C17_BadFrameDropped ==
    read_failure = "bad_frame" => cap_pc = "read"

\* C18: the step in which the reset scheduled by on_save_error runs and
\* reads the length of the shared buffer is taken with the lock held by the
\* GUI thread, as every other read of the buffer is.
C18_BufferReadsUnderLock ==
    [][(\E t \in BagToSet(timers) :
            /\ t.kind = "reset_live"
            /\ timers' = timers (-) SetToBag({t}))
        => lock' = "gui"]_vars

\* C19: the list a trigger hands to save_video holds at least one frame and
\* at most maxlen frames of the buffer it was copied from, so no save thread
\* ever takes the zero-frame return, which posts no callback.
C19_ExportNeverEmpty ==
    /\ [](gui_pc = "save_snapshot"
            => /\ Len(frames_to_save) >= 1
               /\ Len(frames_to_save) <= frame_buffer.maxlen)
    /\ [](\A j \in 1..Len(exports) :
            /\ Len(exports[j].frames) >= 1
            /\ exports[j].pc # "returned")
    /\ [][Len(exports') > Len(exports)
            => /\ gui_pc = "save_snapshot"
               /\ exports'[Len(exports')].frames = frames_to_save
               /\ frame_buffer' = frame_buffer
               /\ Len(frames_to_save) <= frame_buffer.maxlen]_vars

\* C19 witness: a save thread was started on a snapshot of a buffer that
\* held a single frame and had room for more
C19_Witness ==
    /\ is_saving
    /\ frame_buffer.maxlen >= 2
    /\ \E j \in InFlight :
          /\ Len(exports[j].frames) = 1
          /\ exports[j].pc = "write"

\* C20: whenever the status label shows the neutral "Camera ready" text, no
\* export is running.
C20_ReadyMeansNotSaving ==
    status.kind = "ready" => ~is_saving

====
